---- MODULE Spec2Model ----
(***************************************************************************)
(* Model of the parking-slot booking transaction of parking-beta:          *)
(* database.py (book_slots, reset_all_bookings, get_booking_stats and the  *)
(* get_db_connection context manager over SQLite) and the /api/book-slots  *)
(* handler of app.py.                                                      *)
(*                                                                         *)
(* SQLite semantics modelled: every request opens its own connection.  The *)
(* sqlite3 module runs a SELECT outside any transaction (it reads the      *)
(* committed database) and opens a transaction implicitly before the first *)
(* UPDATE / INSERT / DELETE, which takes the database write lock.  Changes *)
(* of an open transaction are visible to no other connection until commit; *)
(* rollback discards them.  A writer that finds the lock taken waits, and  *)
(* raises OperationalError when the busy timeout runs out.                 *)
(*                                                                         *)
(* Specifications: Spec runs two request handlers and the administrator's  *)
(* reset concurrently, on requests of up to MaxConcReq names; SpecSeq runs *)
(* one handler, request after request, and reset requests from sessions of *)
(* every role, on requests of up to MaxReq names; SpecClock is Spec with   *)
(* the wall clock advancing; SpecFees runs the fee calculation alone from  *)
(* every hour of the day while the clock advances; SpecQuery runs the read *)
(* of a user's bookings on every bookings table the schema admits.         *)
(***************************************************************************)
EXTENDS Integers, Sequences, FiniteSets, TLC

\* ---------------------------------------------------------------- bounds
MaxReq == 2        \* longest list of slot names in one request
MaxConcReq == 1    \* the same, where two handlers run concurrently
MaxTicks == 1      \* hours the wall clock advances in one behaviour
StartHours == {4}  \* local hours a behaviour can start in

\* ------------------------------------------------------- the slot catalog
\* populate_slots, cut down to two vip slots and one normal slot; ids are the
\* AUTOINCREMENT row ids, i.e. the positions in insertion order.
populate_slots ==
    << [slot_type |-> "vip",    slot_name |-> "V1", price |-> 500],
       [slot_type |-> "vip",    slot_name |-> "V2", price |-> 500],
       [slot_type |-> "normal", slot_name |-> "N1", price |-> 320] >>

SlotIds == 1..Len(populate_slots)
Tiers == {"vip", "normal"}
Refs == {"R1", "R2"}           \* values secrets.token_hex(8).upper() yields
Procs == {"p1", "p2"}          \* concurrent request handlers
user_id == [p \in Procs |-> IF p = "p1" THEN 1 ELSE 2]   \* session['user_id']
NoLock == "none"
Admin == "admin"

Range(s) == {s[i] : i \in 1..Len(s)}

\* The lists of names a request can carry, up to MaxReq names, a name possibly
\* repeated.  book_slots uses only the length of the list and the set of its
\* names (an IN list), so one order stands for each list: names in the order
\* of NameOrder.
NameOrder == << "N1", "V1", "V2", "X9" >>
Names == Range(NameOrder)
Rank(x) == CHOOSE i \in 1..Len(NameOrder) : NameOrder[i] = x
RECURSIVE SeqsUpTo(_)
SeqsUpTo(n) ==
    IF n = 0 THEN {<< >>}
    ELSE LET S == SeqsUpTo(n - 1)
         IN  S \cup {Append(s, x) : s \in {t \in S : Len(t) = n - 1},
                                    x \in Names}
Sorted(s) == \A i \in 1..(Len(s) - 1) : Rank(s[i]) <= Rank(s[i + 1])
Requests == {s \in SeqsUpTo(MaxReq) : Sorted(s)}
ConcRequests == {s \in SeqsUpTo(MaxConcReq) : Sorted(s)}

\* ------------------------------------------------------------------ fees
calculate_platform_fee(base_amount) == 18

is_midnight_to_5am_incl(hour) == 0 <= hour /\ hour <= 5
is_midnight_to_5am(hour) == 0 <= hour /\ hour < 5

calculate_night_surcharge(base_amount, hour) ==
    IF is_midnight_to_5am(hour) THEN 12 ELSE 0

\* grand_total of calculate_total_fees
grand_total(base_amount, hour) ==
    base_amount + calculate_platform_fee(base_amount)
                + calculate_night_surcharge(base_amount, hour)

\* base_price of book_slots_route
base_price(slot_type, slots) ==
    Len(slots) * (IF slot_type = "vip" THEN 500
                  ELSE IF slot_type = "executive" THEN 350 ELSE 320)

\* the local hours of a day, and the base amounts a fee request carries
Hours == 0..23
BaseAmounts == {base_price(st, s) : st \in Tiers, s \in Requests}

\* ----------------------------------------------------------------- state
VARIABLES
    is_booked,     \* slots.is_booked, committed: [SlotIds -> BOOLEAN]
    bookings,      \* rows of the bookings table, committed
    lock,          \* holder of the SQLite write lock, or NoLock
    pc,            \* position of each request handler
    req,           \* the request a handler is serving
    slot_ids,      \* slot_ids of book_slots (ids resolved by the second SELECT)
    tx_booked,     \* slots marked by a handler's open transaction
    tx_rows,       \* booking rows inserted by a handler's open transaction
    result,        \* the dict book_slots returned
    race,          \* history: the two current calls overlapped in time, and
                   \* no reset has committed since
    expect,        \* history: the slots a call asked for that were occupied
                   \* when it began, no reset having committed since
    hist,          \* history: "fresh" when the handler's call began on an
                   \* empty bookings table with nothing else running, "again"
                   \* when its call repeats the request of its previous, fresh
                   \* call; "none" once another call or a reset has begun
    rpc,           \* position of the administrator's reset_all_bookings
    clock,         \* datetime.now().hour
    ticks,         \* how many hours the clock has advanced
    fpc,           \* position of the /api/calculate-fees handler
    fees,          \* the breakdown calculate_total_fees is building
    actor,         \* the session whose /api/reset-bookings request is served
    listing        \* the answer of the latest /api/my-bookings request

vars == << is_booked, bookings, lock, pc, req, slot_ids, tx_booked, tx_rows,
           result, race, expect, hist, rpc, clock, ticks,
           fpc, fees, actor, listing >>

NoReq == [slot_type |-> "none", slots |-> << >>, booking_reference |-> "none",
          total_amount |-> 0]
NoResult == [success |-> FALSE, message |-> "none", names |-> << >>,
             booked_count |-> 0, price |-> 0]

NoFees == [base_amount |-> 0, platform_fee |-> 0, night_surcharge |-> 0,
           total_fees |-> 0, grand_total |-> 0, is_night_time |-> FALSE]
NoActor == "none"
NoListing == [user_id |-> 0, bookings |-> << >>]

\* the state after init_db, the process starting in one of the given hours
Start(hours) ==
    /\ is_booked = [s \in SlotIds |-> FALSE]
    /\ bookings = {}
    /\ lock = NoLock
    /\ pc = [p \in Procs |-> "idle"]
    /\ req = [p \in Procs |-> NoReq]
    /\ slot_ids = [p \in Procs |-> << >>]
    /\ tx_booked = [p \in Procs |-> {}]
    /\ tx_rows = [p \in Procs |-> {}]
    /\ result = [p \in Procs |-> NoResult]
    /\ race = FALSE
    /\ expect = [p \in Procs |-> {}]
    /\ hist = [p \in Procs |-> "none"]
    /\ rpc = "idle"
    /\ clock \in hours
    /\ ticks = 0
    /\ fpc = "idle"
    /\ fees = NoFees
    /\ actor = NoActor
    /\ listing = NoListing

Init == Start(StartHours)

\* nothing but handler p is running
Alone(p) == rpc = "idle" /\ \A q \in Procs \ {p} : pc[q] = "idle"
InFlight(p) == pc[p] \in {"select_booked", "select_ids", "update", "insert", "commit"}

\* ------------------------------------------------------------ SQL helpers
IdSeq == [i \in SlotIds |-> i]
slot_name(s) == populate_slots[s].slot_name
slot_type_of(s) == populate_slots[s].slot_type
NamesOf(ids) == [i \in 1..Len(ids) |-> slot_name(ids[i])]

\* SELECT slot_name FROM slots WHERE slot_name IN (...) AND slot_type = ?
\* AND is_booked = 1, read from the committed table b, rows in id order
already_booked_first(b, st, slots) ==
    LET Hit(s) == slot_name(s) \in Range(slots) /\ slot_type_of(s) = st /\ b[s]
        hits   == SelectSeq(IdSeq, Hit)
    IN  IF hits = << >> THEN hits ELSE << Head(hits) >>
already_booked(b, st, slots) ==
    LET Hit(s) == slot_name(s) \in Range(slots) /\ slot_type_of(s) = st /\ b[s]
    IN  SelectSeq(IdSeq, Hit)

\* SELECT id, price FROM slots WHERE slot_name IN (...) AND slot_type = ?
slot_data(st, slots) ==
    LET Hit(s) == slot_name(s) \in Range(slots) /\ slot_type_of(s) = st
    IN  SelectSeq(IdSeq, Hit)

\* one row of bookings_to_insert
booking_row(sid, uid, r, t) ==
    [slot_id |-> sid, user_id |-> uid,
     booking_reference |-> r.booking_reference,
     total_amount |-> r.total_amount, booking_time |-> t, status |-> "active"]

\* the UNIQUE constraint on bookings.booking_reference
unique_ok_off(table, row) == TRUE
unique_ok(table, row) ==
    \A b \in table : b.booking_reference # row.booking_reference

\* cursor.executemany(INSERT INTO bookings ...): the rows go in one by one
\* and the first that breaks the UNIQUE constraint raises IntegrityError
RECURSIVE executemany(_, _)
executemany(table, rows) ==
    IF rows = << >> THEN [ok |-> TRUE, table |-> table]
    ELSE IF ~unique_ok(table, Head(rows)) THEN [ok |-> FALSE, table |-> table]
    ELSE executemany(table \cup {Head(rows)}, Tail(rows))

\* UPDATE slots SET is_booked = 1 WHERE id IN (slot_ids)
mark_booked(ids) == Range(ids)

\* get_db_connection: conn.commit() makes the transaction's changes the
\* committed state, conn.rollback() discards them
commit_booked_drops(committed, marked) == committed
commit_booked(committed, marked) == [s \in SlotIds |-> committed[s] \/ s \in marked]
commit_rows(committed, inserted) == committed \cup inserted
rollback_booked_keeps(committed, marked) ==
    [s \in SlotIds |-> committed[s] \/ s \in marked]
rollback_booked(committed, marked) == committed
rollback_rows_clears(committed, inserted) == {}
rollback_rows(committed, inserted) == committed

\* get_booking_stats: per tier of the slots table, COUNT(*), the number of
\* rows with is_booked = 1 and the number with is_booked = 0
get_booking_stats(b) ==
    [t \in {slot_type_of(s) : s \in SlotIds} |->
        [total     |-> Cardinality({s \in SlotIds : slot_type_of(s) = t}),
         booked    |-> Cardinality({s \in SlotIds : slot_type_of(s) = t /\ b[s]}),
         available |-> Cardinality({s \in SlotIds : slot_type_of(s) = t /\ ~b[s]})]]

\* the row of the slots table the JOIN adds to a booking row
joined_slot(b) ==
    [slot_name |-> slot_name(b.slot_id), slot_type |-> slot_type_of(b.slot_id),
     price |-> populate_slots[b.slot_id].price]

\* what get_booking_by_reference returns for None
NoBooking == [booking_reference |-> "none", booking_time |-> 0,
              total_amount |-> 0, status |-> "none", slots |-> << >>]

\* get_booking_by_reference: the rows with the reference, joined with their
\* slots; the header comes from the first row, the slot list from all rows
\* (rows in the order they were inserted, which is slot id order)
get_booking_by_reference_all(table, booking_reference) ==
    LET rows   == table
        Has(s) == \E b \in rows : b.slot_id = s
        ids    == SelectSeq(IdSeq, Has)
        Row(s) == CHOOSE b \in rows : b.slot_id = s
        first  == Row(Head(ids))
    IN  IF rows = {} THEN NoBooking
        ELSE [booking_reference |-> first.booking_reference,
              booking_time |-> first.booking_time,
              total_amount |-> first.total_amount,
              status |-> first.status,
              slots |-> [i \in 1..Len(ids) |-> joined_slot(Row(ids[i]))]]
get_booking_by_reference(table, booking_reference) ==
    LET rows   == {b \in table : b.booking_reference = booking_reference}
        Has(s) == \E b \in rows : b.slot_id = s
        ids    == SelectSeq(IdSeq, Has)
        Row(s) == CHOOSE b \in rows : b.slot_id = s
        first  == Row(Head(ids))
    IN  IF rows = {} THEN NoBooking
        ELSE [booking_reference |-> first.booking_reference,
              booking_time |-> first.booking_time,
              total_amount |-> first.total_amount,
              status |-> first.status,
              slots |-> [i \in 1..Len(ids) |-> joined_slot(Row(ids[i]))]]

\* the orders in which ORDER BY b.booking_time DESC can return a set of rows
\* (rows of equal time in any order)
Perms(S) == {q \in [1..Cardinality(S) -> S] : Range(q) = S}
order_by_time_asc(rows) ==
    {q \in Perms(rows) :
        \A i \in 1..(Len(q) - 1) : q[i].booking_time <= q[i + 1].booking_time}
order_by_time_desc(rows) ==
    {q \in Perms(rows) :
        \A i \in 1..(Len(q) - 1) : q[i].booking_time >= q[i + 1].booking_time}

\* get_user_bookings, the loop over the fetched rows (database.py 267-285):
\* an entry per reference, in the order the references first appear, each
\* row's slot appended to the entry of its reference
RECURSIVE group_by_reference(_, _)
group_by_reference(rows, grouped) ==
    IF rows = << >> THEN grouped
    ELSE LET row == Head(rows)
             at  == {i \in 1..Len(grouped) :
                        grouped[i].booking_reference = row.booking_reference}
         IN  IF at = {}
             THEN group_by_reference(Tail(rows),
                     Append(grouped,
                            [booking_reference |-> row.booking_reference,
                             booking_time |-> row.booking_time,
                             total_amount |-> row.total_amount,
                             status |-> row.status,
                             slots |-> << joined_slot(row) >>]))
             ELSE LET i == CHOOSE j \in at : TRUE
                  IN  group_by_reference(Tail(rows),
                         [grouped EXCEPT ![i].slots = Append(@, joined_slot(row))])

\* get_user_bookings: the lists it can return for a user
get_user_bookings(table, uid) ==
    {group_by_reference(q, << >>) :
        q \in order_by_time_desc({b \in table : b.user_id = uid})}

\* ---------------------------------------------------------------- actions
Finish(p, res) ==
    /\ pc' = [pc EXCEPT ![p] = "done"]
    /\ result' = [result EXCEPT ![p] = res]

\* /api/book-slots up to the call of database.book_slots (app.py 208-231)
\* and the entry of book_slots (database.py 137-146)
book_slots_route(p, R) ==
    /\ pc[p] = "idle"
    /\ \E st \in Tiers, slots \in R :
         /\ req' = [req EXCEPT ![p] =
                [slot_type |-> st, slots |-> slots, booking_reference |-> "none",
                 total_amount |-> grand_total(base_price(st, slots), clock)]]
         /\ IF slots = << >>
            THEN Finish(p, [NoResult EXCEPT !.message = "Invalid booking data"])
            ELSE /\ pc' = [pc EXCEPT ![p] = "select_booked"]
                 /\ UNCHANGED result
         /\ expect' = [expect EXCEPT ![p] =
                {s \in Range(slot_data(st, slots)) : is_booked[s]}]
         /\ hist' = [q \in Procs |->
                IF q # p THEN "none"
                ELSE IF hist[p] = "fresh" /\ req[p].slot_type = st
                        /\ req[p].slots = slots /\ Alone(p) THEN "again"
                ELSE IF bookings = {} /\ Alone(p) THEN "fresh"
                ELSE "none"]
    /\ race' = \E q \in Procs \ {p} : InFlight(q)
    /\ UNCHANGED << is_booked, bookings, lock, slot_ids, tx_booked, tx_rows,
                    rpc, clock, ticks,
                    fpc, fees, actor, listing >>

\* book_slots, the first SELECT and the early return (database.py 148-164);
\* returning from the with block commits the (empty) transaction
select_already_booked(p) ==
    /\ pc[p] = "select_booked"
    /\ LET ab == already_booked(is_booked, req[p].slot_type, req[p].slots)
       IN  IF ab # << >>
           THEN Finish(p, [NoResult EXCEPT !.message = "Slots already booked",
                                           !.names = NamesOf(ab)])
           ELSE /\ pc' = [pc EXCEPT ![p] = "select_ids"]
                /\ UNCHANGED result
    /\ UNCHANGED << is_booked, bookings, lock, req, slot_ids, tx_booked, tx_rows,
                    race, expect, hist, rpc, clock, ticks,
                    fpc, fees, actor, listing >>

\* book_slots, the second SELECT (database.py 166-179)
select_slot_ids(p) ==
    /\ pc[p] = "select_ids"
    /\ LET sd == slot_data(req[p].slot_type, req[p].slots)
       IN  IF sd = << >>
           THEN /\ Finish(p, [NoResult EXCEPT !.message = "Invalid slots"])
                /\ UNCHANGED slot_ids
           ELSE /\ pc' = [pc EXCEPT ![p] = "update"]
                /\ slot_ids' = [slot_ids EXCEPT ![p] = sd]
                /\ UNCHANGED result
    /\ UNCHANGED << is_booked, bookings, lock, req, tx_booked, tx_rows,
                    race, expect, hist, rpc, clock, ticks,
                    fpc, fees, actor, listing >>

\* book_slots, the UPDATE (database.py 181-187): opens the transaction and
\* takes the write lock, waiting while another connection holds it
update_slots(p) ==
    /\ pc[p] = "update"
    /\ lock = NoLock
    /\ lock' = p
    /\ tx_booked' = [tx_booked EXCEPT ![p] = mark_booked(slot_ids[p])]
    /\ pc' = [pc EXCEPT ![p] = "insert"]
    /\ UNCHANGED << is_booked, bookings, req, slot_ids, tx_rows, result,
                    race, expect, hist, rpc, clock, ticks,
                    fpc, fees, actor, listing >>

\* the exception path of get_db_connection (database.py 16-20): rollback,
\* then the exception leaves book_slots
raise_from(p, exc) ==
    /\ is_booked' = rollback_booked(is_booked, tx_booked[p])
    /\ bookings' = rollback_rows(bookings, tx_rows[p])
    /\ tx_booked' = [tx_booked EXCEPT ![p] = {}]
    /\ tx_rows' = [tx_rows EXCEPT ![p] = {}]
    /\ lock' = IF lock = p THEN NoLock ELSE lock
    /\ pc' = [pc EXCEPT ![p] = "raised"]
    /\ result' = [result EXCEPT ![p] = [NoResult EXCEPT !.message = exc]]

\* the UPDATE gives up waiting for the write lock: sqlite3.OperationalError
\* ("database is locked") after the connection's busy timeout
busy_timeout(p) ==
    /\ pc[p] = "update"
    /\ lock \notin {NoLock, p}
    /\ raise_from(p, "OperationalError")
    /\ UNCHANGED << req, slot_ids, race, expect, hist,
                    rpc, clock, ticks,
                    fpc, fees, actor, listing >>

\* book_slots, the INSERTs (database.py 189-195).  The booking reference is
\* drawn at line 143 and first used here; no step in between reads it, so the
\* draw is made where it is used
insert_bookings(p) ==
    /\ pc[p] = "insert"
    /\ \E ref \in Refs :
         LET r    == [req[p] EXCEPT !.booking_reference = ref]
             rows == [i \in 1..Len(slot_ids[p]) |->
                        booking_row(slot_ids[p][i], user_id[p], r, clock)]
             ins  == executemany(bookings, rows)
         IN  /\ req' = [req EXCEPT ![p] = r]
             /\ IF ins.ok
                THEN /\ tx_rows' = [tx_rows EXCEPT ![p] = ins.table \ bookings]
                     /\ pc' = [pc EXCEPT ![p] = "commit"]
                     /\ UNCHANGED << is_booked, bookings, lock, tx_booked, result >>
                ELSE raise_from(p, "IntegrityError")
    /\ UNCHANGED << slot_ids, race, expect, hist,
                    rpc, clock, ticks,
                    fpc, fees, actor, listing >>

\* book_slots returns its success dict (database.py 197-203) and the with
\* block commits (database.py 15)
commit_booking(p) ==
    /\ pc[p] = "commit"
    /\ is_booked' = commit_booked(is_booked, tx_booked[p])
    /\ bookings' = commit_rows(bookings, tx_rows[p])
    /\ tx_booked' = [tx_booked EXCEPT ![p] = {}]
    /\ tx_rows' = [tx_rows EXCEPT ![p] = {}]
    /\ lock' = NoLock
    /\ Finish(p, [success |-> TRUE, message |-> "Successfully booked",
                  names |-> << >>, booked_count |-> Len(req[p].slots),
                  price |-> populate_slots[slot_ids[p][1]].price])
    /\ UNCHANGED << req, slot_ids, race, expect, hist,
                    rpc, clock, ticks,
                    fpc, fees, actor, listing >>

\* the handler has answered (app.py 233-249), or the exception has left it;
\* the worker is free for the next request
respond(p) ==
    /\ pc[p] \in {"done", "raised"}
    /\ pc' = [pc EXCEPT ![p] = "idle"]
    /\ req' = [req EXCEPT ![p] = IF hist[p] = "fresh"
                                  THEN [req[p] EXCEPT !.booking_reference = "none"]
                                  ELSE NoReq]
    /\ result' = [result EXCEPT ![p] = NoResult]
    /\ slot_ids' = [slot_ids EXCEPT ![p] = << >>]
    /\ race' = FALSE
    /\ expect' = [expect EXCEPT ![p] = {}]
    /\ hist' = [hist EXCEPT ![p] = IF hist[p] = "fresh" THEN "fresh" ELSE "none"]
    /\ UNCHANGED << is_booked, bookings, lock, tx_booked, tx_rows,
                    rpc, clock, ticks,
                    fpc, fees, actor, listing >>

\* the sessions a /api/reset-bookings request can come from: no user logged
\* in, a user whose row is gone, and a user of each user_type
Sessions == {"anonymous", "deleted", "user", "staff", Admin}
get_user_by_id(a) == IF a \in {"anonymous", "deleted"} THEN "None" ELSE a

\* admin_required: "ok" when the decorated handler runs, else the status the
\* decorator answers with
admin_required_any(a) ==
    IF a = "anonymous" THEN "401" ELSE "ok"
admin_required(a) ==
    IF a = "anonymous" THEN "401"
    ELSE IF get_user_by_id(a) = "None" \/ get_user_by_id(a) \notin {"admin", "staff"}
         THEN "403"
    ELSE "ok"

\* /api/reset-bookings behind admin_required (app.py 24-39, 287-292), and
\* reset_all_bookings, UPDATE slots SET is_booked = 0 (database.py 207-211):
\* opens the transaction and takes the write lock.  (A reset that gives up
\* waiting for the lock raises before it has changed anything, and
\* reset_bookings reports it: no state changes, so it is no step here.)
reset_update(a) ==
    /\ rpc = "idle"
    /\ actor' = a
    /\ IF admin_required(a) = "ok"
       THEN /\ lock = NoLock
            /\ lock' = a
            /\ rpc' = "delete"
            /\ hist' = [p \in Procs |-> "none"]
            /\ req' = [p \in Procs |-> IF pc[p] = "idle" THEN NoReq ELSE req[p]]
       ELSE /\ rpc' = "refused"
            /\ UNCHANGED << lock, hist, req >>
    /\ UNCHANGED << is_booked, bookings, pc, slot_ids, tx_booked, tx_rows,
                    result, race, expect, clock, ticks,
                    fpc, fees, listing >>

\* the decorator has answered 401 or 403 (app.py 33, 37); reset_bookings
\* did not run
reset_refused(a) ==
    /\ a = actor
    /\ rpc = "refused"
    /\ rpc' = "idle"
    /\ actor' = NoActor
    /\ UNCHANGED << is_booked, bookings, lock, pc, req, slot_ids, tx_booked,
                    tx_rows, result, race, expect, hist, clock, ticks,
                    fpc, fees, listing >>

\* reset_all_bookings, DELETE FROM bookings (database.py 213-214)
reset_delete(a) ==
    /\ a = actor
    /\ rpc = "delete"
    /\ rpc' = "commit"
    /\ UNCHANGED << is_booked, bookings, lock, pc, req, slot_ids, tx_booked,
                    tx_rows, result, race, expect, hist, clock, ticks,
                    fpc, fees, actor, listing >>

\* what the reset transaction leaves when it commits
reset_booked_keeps(committed) == committed
reset_booked(committed) == [s \in SlotIds |-> FALSE]
reset_rows_keeps(committed) == committed
reset_rows(committed) == {}

\* reset_all_bookings returns and the with block commits (database.py 15, 216-217)
reset_commit(a) ==
    /\ a = actor
    /\ actor' = NoActor
    /\ rpc = "commit"
    /\ is_booked' = reset_booked(is_booked)
    /\ bookings' = reset_rows(bookings)
    /\ lock' = NoLock
    /\ rpc' = "idle"
    /\ race' = FALSE
    /\ expect' = [p \in Procs |-> {}]
    /\ UNCHANGED << pc, req, slot_ids, tx_booked, tx_rows, result, hist,
                    clock, ticks,
                    fpc, fees, listing >>

\* the wall clock reaches the next hour
Tick ==
    /\ ticks < MaxTicks
    /\ ticks' = ticks + 1
    /\ clock' = (clock + 1) % 24
    /\ UNCHANGED << is_booked, bookings, lock, pc, req, slot_ids, tx_booked,
                    tx_rows, result, race, expect, hist, rpc,
                    fpc, fees, actor, listing >>

\* /api/calculate-fees (app.py 251-257) into calculate_total_fees, lines
\* 60-61: the platform fee, and the night surcharge from the first reading of
\* the clock
calculate_fees(base_amount) ==
    /\ fpc = "idle"
    /\ fees' = [NoFees EXCEPT
                  !.base_amount = base_amount,
                  !.platform_fee = calculate_platform_fee(base_amount),
                  !.night_surcharge = calculate_night_surcharge(base_amount, clock)]
    /\ fpc' = "dict"
    /\ UNCHANGED << is_booked, bookings, lock, pc, req, slot_ids, tx_booked,
                    tx_rows, result, race, expect, hist, rpc, clock, ticks,
                    actor, listing >>

\* calculate_total_fees, lines 63-72: the dict is built from the two fees
\* already computed, and is_night_time from a second reading of the clock
calculate_total_fees ==
    /\ fpc = "dict"
    /\ fees' = [fees EXCEPT
                  !.total_fees = fees.platform_fee + fees.night_surcharge,
                  !.grand_total = fees.base_amount + fees.platform_fee
                                                   + fees.night_surcharge,
                  !.is_night_time = is_midnight_to_5am(clock)]
    /\ fpc' = "done"
    /\ UNCHANGED << is_booked, bookings, lock, pc, req, slot_ids, tx_booked,
                    tx_rows, result, race, expect, hist, rpc, clock, ticks,
                    actor, listing >>

\* /api/calculate-fees answers with the breakdown (app.py 259)
fees_respond ==
    /\ fpc = "done"
    /\ fpc' = "idle"
    /\ fees' = NoFees
    /\ UNCHANGED << is_booked, bookings, lock, pc, req, slot_ids, tx_booked,
                    tx_rows, result, race, expect, hist, rpc, clock, ticks,
                    actor, listing >>

\* /api/my-bookings (app.py 261-266)
my_bookings(p) ==
    /\ \E l \in get_user_bookings(bookings, user_id[p]) :
          listing' = [user_id |-> user_id[p], bookings |-> l]
    /\ UNCHANGED << is_booked, bookings, lock, pc, req, slot_ids, tx_booked,
                    tx_rows, result, race, expect, hist, rpc, clock, ticks,
                    fpc, fees, actor >>

\* two handlers and the administrator, all concurrent
Next ==
    \/ \E p \in Procs : book_slots_route(p, ConcRequests)
    \/ \E p \in Procs : select_already_booked(p)
    \/ \E p \in Procs : select_slot_ids(p)
    \/ \E p \in Procs : update_slots(p)
    \/ \E p \in Procs : busy_timeout(p)
    \/ \E p \in Procs : insert_bookings(p)
    \/ \E p \in Procs : commit_booking(p)
    \/ \E p \in Procs : respond(p)
    \/ reset_update(Admin)
    \/ reset_delete(Admin)
    \/ reset_commit(Admin)

Spec == Init /\ [][Next]_vars

\* one handler serving one request after the other, and the administrator
One == {"p1"}
NextSeq ==
    \/ \E p \in One : book_slots_route(p, Requests)
    \/ \E p \in One : select_already_booked(p)
    \/ \E p \in One : select_slot_ids(p)
    \/ \E p \in One : update_slots(p)
    \/ \E p \in One : busy_timeout(p)
    \/ \E p \in One : insert_bookings(p)
    \/ \E p \in One : commit_booking(p)
    \/ \E p \in One : respond(p)
    \/ \E a \in Sessions : reset_update(a)
    \/ \E a \in Sessions : reset_refused(a)
    \/ \E a \in Sessions : reset_delete(a)
    \/ \E a \in Sessions : reset_commit(a)

SpecSeq == Init /\ [][NextSeq]_vars

\* the same handlers while the wall clock advances
NextClock == Next \/ Tick
SpecClock == Init /\ [][NextClock]_vars

\* the fee calculation alone, started in any hour of the day, while the wall
\* clock advances
InitFees == Start(Hours)
NextFees ==
    \/ \E b \in BaseAmounts : calculate_fees(b)
    \/ calculate_total_fees
    \/ fees_respond
    \/ Tick
SpecFees == InitFees /\ [][NextFees]_vars

\* the hours a booking can be stamped with
Times == {(h + k) % 24 : h \in StartHours, k \in 0..MaxTicks}

\* the booking row a committed booking of one slot leaves
committed_row(s, p, ref, t) ==
    booking_row(s, user_id[p],
                [booking_reference |-> ref,
                 total_amount |-> grand_total(base_price(slot_type_of(s),
                                                         << slot_name(s) >>), t)],
                t)

\* the bookings tables the schema admits: under each reference no row or one
RowsUnder(ref) ==
    {{}} \cup {{committed_row(s, p, ref, t)} :
                  s \in SlotIds, p \in Procs, t \in Times}
Tables ==
    {UNION {f[ref] : ref \in Refs} :
        f \in {g \in [Refs -> UNION {RowsUnder(ref) : ref \in Refs}] :
                  \A ref \in Refs : g[ref] \in RowsUnder(ref)}}

\* the read of a user's bookings, on every database the bookings can have
\* left: the rows of a table and the flags of their slots
InitQuery ==
    /\ bookings \in Tables
    /\ is_booked = [s \in SlotIds |-> \E b \in bookings : b.slot_id = s]
    /\ lock = NoLock
    /\ pc = [p \in Procs |-> "idle"]
    /\ req = [p \in Procs |-> NoReq]
    /\ slot_ids = [p \in Procs |-> << >>]
    /\ tx_booked = [p \in Procs |-> {}]
    /\ tx_rows = [p \in Procs |-> {}]
    /\ result = [p \in Procs |-> NoResult]
    /\ race = FALSE
    /\ expect = [p \in Procs |-> {}]
    /\ hist = [p \in Procs |-> "none"]
    /\ rpc = "idle"
    /\ clock \in StartHours
    /\ ticks = 0
    /\ fpc = "idle"
    /\ fees = NoFees
    /\ actor = NoActor
    /\ listing = NoListing
NextQuery == \E p \in Procs : my_bookings(p)
SpecQuery == InitQuery /\ [][NextQuery]_vars

\* ================================================================ claims
Finished == {"done", "raised"}
\* the slots of the catalog a request names within its tier
Resolved(r) == Range(slot_data(r.slot_type, r.slots))
\* some requested name is no slot of the requested tier
HasUnresolved(r) ==
    \E n \in Range(r.slots) :
        ~\E s \in SlotIds : slot_name(s) = n /\ slot_type_of(s) = r.slot_type
\* the request names k distinct existing slots of its tier
Clean(r) ==
    /\ r.slots # << >>
    /\ ~HasUnresolved(r)
    /\ \A i, j \in 1..Len(r.slots) : i # j => r.slots[i] # r.slots[j]
Succeeded(p) == pc[p] = "done" /\ result[p].success
Conflict(p) == pc[p] = "done" /\ result[p].message = "Slots already booked"

\* C1: of two booking requests that ran concurrently, with no reset in
\* between, that name a common slot, that each began while the slots it names
\* were free and that both returned a result, exactly one succeeded and the
\* other failed with "Slots already booked" naming the common slots.
C1_ExactlyOneOfARaceSucceeds ==
    \A p, q \in Procs :
        ( /\ p # q
          /\ race
          /\ expect[p] = {} /\ expect[q] = {}
          /\ pc[p] = "done" /\ pc[q] = "done"
          /\ Resolved(req[p]) \cap Resolved(req[q]) # {} )
        => \/ /\ Succeeded(p)
              /\ Conflict(q)
              /\ {slot_name(s) : s \in Resolved(req[p]) \cap Resolved(req[q])}
                     \subseteq Range(result[q].names)
           \/ /\ Succeeded(q)
              /\ Conflict(p)
              /\ {slot_name(s) : s \in Resolved(req[p]) \cap Resolved(req[q])}
                     \subseteq Range(result[p].names)

\* C2: no slot is held by two bookings: the booking rows of one slot all
\* carry the same booking reference.
C2_NoSlotInTwoBookings ==
    \A b1, b2 \in bookings :
        b1.slot_id = b2.slot_id => b1.booking_reference = b2.booking_reference

\* C3: a slot's occupied flag is set if and only if some booking row names
\* the slot.
C3_OccupiedIffBooked ==
    \A s \in SlotIds : is_booked[s] <=> (\E b \in bookings : b.slot_id = s)

C3_Witness ==
    /\ Succeeded("p1")
    /\ \E s \in SlotIds : is_booked[s] /\ \E b \in bookings : b.slot_id = s
    /\ \E s \in SlotIds : ~is_booked[s]

\* C4: a request with a name that is no slot of the requested tier fails
\* with "Invalid slots" and leaves no booking row of its own.
C4_NoPartialBooking ==
    \A p \in Procs :
        (pc[p] = "done" /\ HasUnresolved(req[p]))
        => /\ ~result[p].success
           /\ result[p].message = "Invalid slots"
           /\ \A b \in bookings : b.booking_reference # req[p].booking_reference

\* the rows of p's open transaction are one per requested slot and share the
\* reference, the amount and the time
RowsOfOneBooking(rows, r, ids) ==
    /\ {b.slot_id : b \in rows} = ids
    /\ Cardinality(rows) = Cardinality(ids)
    /\ \A b \in rows : /\ b.booking_reference = r.booking_reference
                       /\ b.total_amount = r.total_amount
    /\ \A b1, b2 \in rows : b1.booking_time = b2.booking_time

\* C5: a call on k distinct existing free slots of one tier succeeds for
\* every k >= 1: once the slots are marked, the insert of the k booking rows
\* goes through unless the drawn reference is already in use by a booking,
\* the k rows share reference, amount and time, and the commit marks the k
\* slots occupied, persists the k rows and returns success.
C5_KFreeSlotsAreBooked ==
    [][ \A p \in Procs :
          /\ ( /\ pc[p] = "insert" /\ pc'[p] # "insert"
               /\ Clean(req[p])
               /\ \A b \in bookings :
                      b.booking_reference # req'[p].booking_reference )
             => /\ pc'[p] = "commit"
                /\ RowsOfOneBooking(tx_rows'[p], req'[p], Resolved(req[p]))
          /\ ( /\ pc[p] = "commit" /\ pc'[p] # "commit"
               /\ Clean(req[p]) )
             => /\ pc'[p] = "done" /\ result'[p].success
                /\ \A s \in Resolved(req[p]) : is_booked'[s]
                /\ tx_rows[p] \subseteq bookings'
      ]_vars

\* the slots a request names within its tier that are occupied, in id order
OccupiedNames(r) ==
    LET Occ(s) == /\ slot_name(s) \in Range(r.slots)
                  /\ slot_type_of(s) = r.slot_type
                  /\ is_booked[s]
    IN  NamesOf(SelectSeq(IdSeq, Occ))

\* C6: when a call whose names all resolve in the tier makes its occupancy
\* check while one of them is occupied, it fails with "Slots already booked",
\* the message names every requested slot that is occupied, and neither a
\* slot's occupancy nor a booking row changes.
C6_ConflictNamesEveryOccupiedSlot ==
    [][ \A p \in Procs :
          ( /\ pc[p] = "select_booked" /\ pc'[p] # "select_booked"
            /\ ~HasUnresolved(req[p])
            /\ \E s \in Resolved(req[p]) : is_booked[s] )
          => /\ pc'[p] = "done"
             /\ ~result'[p].success
             /\ result'[p].message = "Slots already booked"
             /\ result'[p].names = OccupiedNames(req[p])
             /\ Range(result'[p].names) =
                    {slot_name(s) : s \in {t \in Resolved(req[p]) : is_booked[t]}}
             /\ is_booked' = is_booked
             /\ bookings' = bookings
             /\ tx_booked'[p] = {} /\ tx_rows'[p] = {}
      ]_vars

C6_Witness ==
    /\ Conflict("p1")
    /\ ~HasUnresolved(req["p1"])
    /\ Len(result["p1"].names) = 2
    /\ Cardinality(bookings) = 2

\* a request that begins after bookings of slots it names have succeeded,
\* with no reset since, fails with "Slots already booked" and the message
\* lists those slots
LaterRequestFails ==
    \A p \in Procs :
        (pc[p] \in Finished /\ expect[p] # {})
        => /\ Conflict(p)
           /\ {slot_name(s) : s \in expect[p]} \subseteq Range(result[p].names)

\* the request for V1 and V2 made again right after the same request was made
\* on an empty bookings table, with nothing else running, fails listing V1, V2
RepeatedRequestFails ==
    \A p \in Procs :
        ( /\ pc[p] \in Finished
          /\ hist[p] = "again"
          /\ req[p].slot_type = "vip"
          /\ req[p].slots = << "V1", "V2" >> )
        => /\ Conflict(p)
           /\ result[p].names = << "V1", "V2" >>

\* C7: once a booking of a slot set has succeeded, every later request of
\* the tier that names one of its slots fails with "Slots already booked"
\* listing the slots it named, until a reset; in particular the request for
\* V1 and V2, repeated, fails listing V1, V2.
C7_LaterRequestsFail == LaterRequestFails /\ RepeatedRequestFails

\* C8: a booking transaction that fails is rolled back in full: the step in
\* which the exception leaves book_slots changes no slot's committed
\* occupancy and no committed booking row, and leaves nothing of the
\* transaction's marks and rows behind.
C8_FailedTransactionRolledBack ==
    [][ \A p \in Procs :
          (pc[p] # "raised" /\ pc'[p] = "raised")
          => /\ is_booked' = is_booked
             /\ bookings' = bookings
             /\ tx_booked'[p] = {} /\ tx_rows'[p] = {}
             /\ lock' # p
      ]_vars

C8_Witness ==
    /\ pc["p1"] = "raised"
    /\ result["p1"].message = "IntegrityError"
    /\ Len(slot_ids["p1"]) = 2
    /\ \A s \in Range(slot_ids["p1"]) : ~is_booked[s]
    /\ bookings = {}

\* C9: every failure on the booking path reaches the caller as a structured
\* result with success = false and a message; no exception leaves book_slots
\* or the /api/book-slots handler.
C9_NoExceptionEscapes ==
    \A p \in Procs : pc[p] # "raised"

AllFree(st) ==
    \A t \in DOMAIN st : st[t].booked = 0 /\ st[t].available = st[t].total

\* C10: when reset_all_bookings completes, get_booking_stats reports
\* booked = 0 and available = total for every tier, every slot is free and
\* there is no booking row.
C10_ResetClearsEverything ==
    [][ (rpc = "commit" /\ rpc' = "idle")
        => /\ AllFree(get_booking_stats(is_booked'))
           /\ \A s \in SlotIds : ~is_booked'[s]
           /\ bookings' = {}
      ]_vars

C10_Witness ==
    /\ Succeeded("p1")
    /\ rpc = "idle"
    /\ AllFree(get_booking_stats(is_booked))
    /\ bookings = {}
\* the breakdown the fee rules give for a base amount in local hour h
Breakdown(b, h) ==
    LET ns == IF 0 <= h /\ h < 5 THEN 12 ELSE 0
    IN  [base_amount |-> b, platform_fee |-> 18, night_surcharge |-> ns,
         total_fees |-> 18 + ns, grand_total |-> b + 18 + ns,
         is_night_time |-> (ns = 12)]

\* C11: for every base amount and every local hour h, calculate_total_fees
\* computes platform_fee = 18 and night_surcharge = 12 when 0 <= h < 5 and 0
\* otherwise, h being the hour in which it computes the surcharge, and builds
\* grand_total = base_amount + platform_fee + night_surcharge from them; a
\* call that runs within one hour h returns the one breakdown the rules give
\* for (base_amount, h).
C11_FeeBreakdown ==
    /\ [][ /\ (fpc = "idle" /\ fpc' = "dict")
              => /\ fees'.platform_fee = 18
                 /\ fees'.night_surcharge = Breakdown(fees'.base_amount, clock).night_surcharge
           /\ (fpc = "dict" /\ fpc' = "done")
              => /\ fees'.base_amount = fees.base_amount
                 /\ fees'.platform_fee = fees.platform_fee
                 /\ fees'.night_surcharge = fees.night_surcharge
                 /\ fees'.grand_total = fees.base_amount + fees.platform_fee
                                                         + fees.night_surcharge
         ]_vars
    /\ []( (fpc = "done" /\ ticks = 0)
            => fees = Breakdown(fees.base_amount, clock) )

C11_Witness ==
    /\ fpc = "done"
    /\ ticks = 0
    /\ clock = 4
    /\ fees.base_amount = 500
    /\ fees.night_surcharge = 12
    /\ fees.grand_total = 530

\* the references a client can ask for: those the generator yields and one it
\* never yields
Lookups == Refs \cup {"R0"}

\* C12: when a booking commits with reference r, get_booking_by_reference(r)
\* returns a booking under r whose slot list is exactly the slots the
\* transaction marked and whose total_amount is the amount it was booked
\* with; what a reference returns stays the same through every step that is
\* not the commit of a reset; a reference with no booking row (never issued,
\* or discarded by a reset) returns the not-found value.
C12_RoundTripByReference ==
    [][ /\ \A p \in Procs :
              (pc[p] = "commit" /\ pc'[p] = "done")
              => LET b == get_booking_by_reference(bookings', req[p].booking_reference)
                 IN  /\ b.booking_reference = req[p].booking_reference
                     /\ {x.slot_name : x \in Range(b.slots)}
                            = {slot_name(s) : s \in tx_booked[p]}
                     /\ Len(b.slots) = Cardinality(tx_booked[p])
                     /\ b.total_amount = req[p].total_amount
        /\ ~(rpc = "commit" /\ rpc' = "idle")
              => \A r \in Lookups :
                    get_booking_by_reference(bookings, r) # NoBooking
                    => get_booking_by_reference(bookings', r)
                           = get_booking_by_reference(bookings, r)
        /\ \A r \in Lookups :
              (\A b \in bookings' : b.booking_reference # r)
              => get_booking_by_reference(bookings', r) = NoBooking
      ]_vars

C12_Witness ==
    /\ Succeeded("p1")
    /\ Cardinality(bookings) = 2
    /\ get_booking_by_reference(bookings, req["p1"].booking_reference).slots
           = << joined_slot([slot_id |-> 2]) >>
    /\ get_booking_by_reference(bookings, "R0") = NoBooking

\* the step in which the reset transaction commits
ResetCommits == rpc = "commit" /\ rpc' = "idle"

\* C13: in every reachable state, also while a reset and bookings in flight
\* interleave, every slot a booking row references is occupied; and the
\* reset is one atomic step: while it runs the committed flags and rows
\* stay as they are, and its commit clears every flag and discards every
\* row together.
C13_BookedSlotsAreOccupied ==
    /\ [](\A b \in bookings : is_booked[b.slot_id])
    /\ [][ /\ rpc' \in {"delete", "commit"}
               => (is_booked' = is_booked /\ bookings' = bookings)
           /\ ResetCommits
               => ((\A s \in SlotIds : ~is_booked'[s]) /\ bookings' = {})
         ]_vars

C13_Witness ==
    /\ rpc = "commit"
    /\ \E p \in Procs : pc[p] = "update"
    /\ \E b \in bookings : is_booked[b.slot_id]

\* C14: booking rows are added only by the commit of a successful
\* book_slots call, and between two resets neither the set of booking rows
\* nor the set of occupied slots shrinks: every step that is not the commit
\* of a reset keeps every row and every occupied slot.
C14_OnlyResetRemoves ==
    [][ /\ ~ResetCommits
            => /\ bookings \subseteq bookings'
               /\ \A s \in SlotIds : is_booked[s] => is_booked'[s]
        /\ bookings' \ bookings # {}
            => \E p \in Procs :
                  /\ pc[p] = "commit" /\ pc'[p] = "done"
                  /\ result'[p].success
                  /\ bookings' \ bookings = tx_rows[p]
      ]_vars

C14_Witness ==
    /\ pc["p1"] = "raised"
    /\ bookings # {}
    /\ \E s \in SlotIds : is_booked[s]

\* the user types the role check lets through
Authorised == {"admin", "staff"}

\* C15: reset_all_bookings runs only for a session whose user is admin or
\* staff; a /api/reset-bookings request from a session with no user, or
\* whose user is neither, is refused, and from its arrival to its answer no
\* slot's occupancy, no booking row and not the write lock changes by it.
C15_ResetGatedByRole ==
    /\ []( /\ rpc \in {"delete", "commit"} => actor \in Authorised
           /\ rpc = "refused" => actor \in Sessions \ Authorised )
    /\ [][ /\ (rpc = "idle" /\ rpc' # "idle" /\ actor' \notin Authorised)
               => /\ rpc' = "refused"
                  /\ is_booked' = is_booked /\ bookings' = bookings
                  /\ lock' = lock
           /\ (rpc = "refused" /\ rpc' # "refused")
               => /\ rpc' = "idle"
                  /\ is_booked' = is_booked /\ bookings' = bookings
                  /\ lock' = lock
         ]_vars

C15_Witness ==
    /\ rpc = "refused"
    /\ actor = "user"
    /\ bookings # {}
    /\ \E s \in SlotIds : is_booked[s]

\* C16: a booking reference identifies one booking transaction: the rows a
\* commit adds carry no reference of a row already in the table; when the
\* generator yields a reference already in use, the insert raises and the
\* transaction persists nothing.
C16_ReferenceIdentifiesOneBooking ==
    [][ /\ \A b \in bookings' \ bookings :
              \A c \in bookings : c.booking_reference # b.booking_reference
        /\ \A p \in Procs :
              ( /\ pc[p] = "insert" /\ pc'[p] # "insert"
                /\ \E c \in bookings :
                       c.booking_reference = req'[p].booking_reference )
              => /\ pc'[p] = "raised"
                 /\ bookings' = bookings /\ is_booked' = is_booked
                 /\ tx_rows'[p] = {} /\ tx_booked'[p] = {}
      ]_vars

C16_Witness ==
    /\ pc["p1"] = "raised"
    /\ result["p1"].message = "IntegrityError"
    /\ Len(slot_ids["p1"]) = 1
    /\ \E c \in bookings : c.booking_reference = req["p1"].booking_reference

\* C17: the list get_user_bookings(u) returns has exactly one entry for
\* every booking reference with a row of user u and no other entry, every
\* entry holds the slots of all rows of its reference, none of them a row of
\* another user, and the entries come newest booking_time first.
C17_UserBookingsListing ==
    listing # NoListing
    => LET u    == listing.user_id
           L    == listing.bookings
           Mine == {b \in bookings : b.user_id = u}
       IN  /\ {L[i].booking_reference : i \in 1..Len(L)}
                  = {b.booking_reference : b \in Mine}
           /\ \A i, j \in 1..Len(L) :
                  i # j => L[i].booking_reference # L[j].booking_reference
           /\ \A i \in 1..Len(L) :
                  LET rows == {b \in bookings :
                                 b.booking_reference = L[i].booking_reference}
                  IN  /\ rows \subseteq Mine
                      /\ Len(L[i].slots) = Cardinality(rows)
                      /\ Range(L[i].slots) = {joined_slot(b) : b \in rows}
                      /\ \A b \in rows : /\ L[i].total_amount = b.total_amount
                                          /\ L[i].booking_time = b.booking_time
           /\ \A i, j \in 1..Len(L) :
                  i < j => L[i].booking_time >= L[j].booking_time

C17_Witness ==
    /\ listing.user_id = 1
    /\ Len(listing.bookings) = 2
    /\ listing.bookings[1].booking_time > listing.bookings[2].booking_time

\* C18: a request that carries both a name that is no slot of the tier and
\* a slot of the tier that was occupied when the call began fails with
\* "Invalid slots", not with the already-booked error.
C18_ExistenceCheckedFirst ==
    \A p \in Procs :
        (pc[p] = "done" /\ HasUnresolved(req[p]) /\ expect[p] # {})
        => /\ ~result[p].success
           /\ result[p].message = "Invalid slots"

\* C19: the total_amount of every persisted booking is what the fee rules
\* give for the hour of its booking_time: it includes the night surcharge if
\* and only if that hour lies in [0, 5).
C19_SurchargeAtBookingTime ==
    \A b \in bookings :
        b.total_amount \in {grand_total(base, b.booking_time) : base \in BaseAmounts}

\* C20: in every breakdown calculate_total_fees returns, is_night_time is
\* true if and only if night_surcharge is 12.
C20_FlagMatchesSurcharge ==
    fpc = "done" => (fees.is_night_time <=> fees.night_surcharge = 12)

\* C21: on every successful booking the number of slots the transaction
\* marked occupied and wrote booking rows for equals the number of names in
\* the request, which is the booked_count reported and the number of slots
\* the total_amount is charged for (tier price times that number, plus
\* fees), also for requests that repeat a name or carry a name that does
\* not resolve.
C21_BookedCountIsSlotsBooked ==
    \A p \in Procs :
        Succeeded(p)
        => /\ Len(slot_ids[p]) = Len(req[p].slots)
           /\ result[p].booked_count = Len(slot_ids[p])
           /\ \E h \in Hours :
                  req[p].total_amount
                      = grand_total(base_price(req[p].slot_type,
                                               NamesOf(slot_ids[p])), h)
====
